---- MODULE Spec2Model ----
(***************************************************************************)
(* A model of the accounting server: the sql.js in-memory database, the    *)
(* route handlers that mutate it, the reports computed from it, and        *)
(* saveDatabase, which exports the database and overwrites the backing     *)
(* file.                                                                   *)
(*                                                                         *)
(* Conventions.                                                            *)
(*  - Money.  `amount' is held in thousandths of a currency unit,          *)
(*    `exchangeRate' in hundredths and `amountInUSD' in cents, so that     *)
(*    Math.round(amount * rate * 100) / 100 is exact integer arithmetic    *)
(*    (binary floating point error is not modelled).                       *)
(*  - Handlers are async functions.  Every `await' is a point where the    *)
(*    event loop may run another callback, so a handler is a sequence of   *)
(*    steps: a step is one statement against the database (with the        *)
(*    reads that lead to it) or one operation on the backing file.         *)
(*  - A table is a function from primary key to row; autoincrement keys    *)
(*    are allotted from sqlite.seq and never reused.                       *)
(***************************************************************************)
EXTENDS Integers, Sequences, FiniteSets, TLC

VARIABLES
    sqlite,   \* the in-memory database (connection.ts: `sqlite')
    file,     \* the backing file DATABASE_PATH, a sequence of chunks
    procs,    \* executions in progress: request handlers and timer callbacks
    reply     \* the last HTTP response sent

vars == <<sqlite, file, procs, reply>>

----------------------------------------------------------------------------
(* Bounds of the model *)

MaxRequests == 2          \* request handlers in progress at once
MaxTimerSaves == 1        \* auto-save callbacks in progress at once
MaxJournalEntryId == 3    \* journal entry ids allotted in one run
MaxRows == 2              \* data rows of an imported CSV file
MaxAttachmentId == 2      \* attachment ids allotted in one run
MaxAccountId == 4         \* GL and subledger account ids allotted in one run
FileChunks == 2           \* write calls one writeFile needs for an image
MaxTimeouts == 6          \* setTimeout calls of the scheduler in one run

RequestProcs == 1..MaxRequests
TimerProcs == (MaxRequests + 1)..(MaxRequests + MaxTimerSaves)
\* the two handlers of SIGINT/SIGTERM: the one of the database module, which
\* is registered first, and the one of the server
DbHandler == MaxRequests + MaxTimerSaves + 1
ServerHandler == MaxRequests + MaxTimerSaves + 2
SignalProcs == {DbHandler, ServerHandler}
\* the scheduled job 'backup': its entry of the map `jobs', its timers and
\* its handler
Scheduler == MaxRequests + MaxTimerSaves + 3
Procs == RequestProcs \cup TimerProcs \cup SignalProcs \cup {Scheduler}

Idle == [kind |-> "idle"]
Exited == [kind |-> "exited", pc |-> "exited"]
NoReply == [kind |-> "none"]

----------------------------------------------------------------------------
(* Tables *)

Without(t, k) == [x \in DOMAIN t \ {k} |-> t[x]]
With(t, k, row) == [x \in DOMAIN t \cup {k} |-> IF x = k THEN row ELSE t[x]]
\* a record with one more field, or one fewer
Put(r, field, v) == [f \in DOMAIN r \cup {field} |-> IF f = field THEN v ELSE r[f]]
Drop(r, fields) == [f \in DOMAIN r \ fields |-> r[f]]
\* UPDATE ... SET: the columns named in `set' are overwritten
SetColumns(row, set) ==
    [c \in DOMAIN row |-> IF c \in DOMAIN set THEN set[c] ELSE row[c]]

DebitNormalBadAsNoLoss == {"Asset", "Cash", "Accounts Receivable"}
DebitNormal == {"Asset", "Cash", "Accounts Receivable", "Loss"}
ACCOUNT_TYPES ==
    {"Asset", "Cash", "Accounts Receivable", "Equity", "Accounts Payable",
     "Profit", "Loss", "Opening Balance"}

\* Math.round(amount * exchangeRate * 100) / 100, in cents; Math.round rounds
\* a half towards +Infinity
Round2(amount, exchangeRate) == (amount * exchangeRate + 500) \div 1000

\* the foreign keys of journal_entries (PRAGMA foreign_keys = ON)
JournalForeignKeys(db, e) ==
    /\ e.debitAccountId \in DOMAIN db.subledgerAccounts
    /\ e.creditAccountId \in DOMAIN db.subledgerAccounts
    /\ e.currencyCode \in DOMAIN db.currencies

\* the BEFORE INSERT triggers prevent_same_account_debit_credit and
\* ensure_positive_amount
InsertTriggers(e) ==
    /\ e.debitAccountId # e.creditAccountId
    /\ e.amount > 0

NextJournalEntryId(db) == db.seq.journalEntries + 1

InsertJournalEntry(db, e) ==
    [db EXCEPT !.journalEntries = With(@, NextJournalEntryId(db), e),
               !.seq.journalEntries = @ + 1]

\* rows of other tables that reference a key (ON DELETE restrict)
SubledgerReferencedBadAsDebitOnly(db, id) ==
    \E j \in DOMAIN db.journalEntries : db.journalEntries[j].debitAccountId = id
SubledgerReferenced(db, id) ==
    \E j \in DOMAIN db.journalEntries :
        \/ db.journalEntries[j].debitAccountId = id
        \/ db.journalEntries[j].creditAccountId = id

GlAccountReferenced(db, id) ==
    \E s \in DOMAIN db.subledgerAccounts : db.subledgerAccounts[s].glAccountId = id

CurrencyReferenced(db, code) ==
    \/ \E s \in DOMAIN db.subledgerAccounts : db.subledgerAccounts[s].currencyCode = code
    \/ \E j \in DOMAIN db.journalEntries : db.journalEntries[j].currencyCode = code

----------------------------------------------------------------------------
(* The backing file *)

Chunk(image, part) == [image |-> image, part |-> part]
Hole == [part |-> 0]
WholeFile(image) == [i \in 1..FileChunks |-> Chunk(image, i)]

\* write(fd, chunk) at position pos of a file of any length: a position past
\* the end leaves a hole before it
WriteAt(f, pos, chunk) ==
    [i \in 1..(IF Len(f) > pos THEN Len(f) ELSE pos) |->
        IF i = pos THEN chunk ELSE IF i <= Len(f) THEN f[i] ELSE Hole]

\* the file holds exactly one exported image, whole
IsImage(f) ==
    /\ Len(f) = FileChunks
    /\ \A i \in 1..FileChunks : f[i].part = i
    /\ \A i \in 1..FileChunks : f[i].image = f[1].image

----------------------------------------------------------------------------
(* Replies *)

\* reply.status(status).send(...)
Send(kind, status) == reply' = [kind |-> kind, status |-> status]

\* a handler that replies with an error in its first step
Reject(p, kind, req, status) ==
    /\ Send(kind, status)
    /\ UNCHANGED <<sqlite, file, procs>>

\* a handler that replies with an error and its message in its first step
RejectAs(p, kind, status, message) ==
    /\ reply' = [kind |-> kind, status |-> status, message |-> message]
    /\ UNCHANGED <<sqlite, file, procs>>

\* the write is done: the handler goes on to `await saveDatabase()'
Written(p, kind, req, db) ==
    /\ sqlite' = db
    /\ procs' = [procs EXCEPT ![p] = [kind |-> kind, pc |-> "export"]]
    /\ UNCHANGED <<file, reply>>

----------------------------------------------------------------------------
(* saveDatabase *)

\* const data = sqlite.export(), in the step that calls saveDatabase
SaveExport(p) ==
    /\ procs[p] # Idle
    /\ procs[p].pc = "export"
    /\ procs' = [procs EXCEPT ![p] = Put(Put(@, "pc", "open"), "data", sqlite)]
    /\ UNCHANGED <<sqlite, file, reply>>

\* writeFile(DATABASE_PATH, data): open with flag 'w' truncates the file
SaveOpen(p) ==
    /\ procs[p] # Idle
    /\ procs[p].pc = "open"
    /\ file' = <<>>
    /\ procs' = [procs EXCEPT ![p] = Put(Put(@, "pc", "write"), "pos", 1)]
    /\ UNCHANGED <<sqlite, reply>>

\* writeFile: one write call at the writer's own file position
SaveWrite(p) ==
    /\ procs[p] # Idle
    /\ procs[p].pc = "write"
    /\ file' = WriteAt(file, procs[p].pos, Chunk(procs[p].data, procs[p].pos))
    /\ procs' = [procs EXCEPT ![p] =
            IF procs[p].pos < FileChunks
            THEN [procs[p] EXCEPT !.pos = @ + 1]
            ELSE Put(Drop(procs[p], {"data", "pos"}), "pc", "written")]
    /\ UNCHANGED <<sqlite, reply>>

SuccessStatus(kind) ==
    CASE kind \in {"jePost", "curPost", "glPost", "subPost", "attPost"} -> 201
      [] kind \in {"jeDelete", "curDelete", "glDelete", "subDelete", "attDelete"} -> 204
      [] OTHER -> 200

\* writeFile has resolved; saveDatabase reads the file back and returns, and
\* the handler sends its reply
SaveDone(p) ==
    /\ procs[p] # Idle
    /\ procs[p].pc = "written"
    /\ procs' = [procs EXCEPT ![p] = Idle]
    /\ IF procs[p].kind = "autoSave"
       THEN UNCHANGED reply
       ELSE IF procs[p].kind = "csvImport"
       THEN reply' = [kind |-> "csvImport", status |-> 200,
                      success |-> procs[p].success, failed |-> 0, errors |-> <<>>]
       ELSE Send(procs[p].kind, SuccessStatus(procs[p].kind))
    /\ UNCHANGED <<sqlite, file>>

\* the setInterval callback of startAutoSave: saveDatabase is entered, and the
\* image exported, as the callback starts
AutoSave(p) ==
    /\ procs[p] = Idle
    /\ procs' = [procs EXCEPT ![p] =
            [kind |-> "autoSave", pc |-> "open", data |-> sqlite]]
    /\ UNCHANGED <<sqlite, file, reply>>

saveDatabase(p) == SaveExport(p) \/ SaveOpen(p) \/ SaveWrite(p) \/ SaveDone(p)

\* writeFile rejects: the open fails and the file is as it was, or a write
\* fails and the file is as the writes before it left it
SaveFail(p) ==
    /\ procs[p] # Idle
    /\ procs[p].pc \in {"open", "write"}
    /\ procs' = [procs EXCEPT ![p] = [kind |-> procs[p].kind, pc |-> "failed"]]
    /\ UNCHANGED <<sqlite, file, reply>>

\* the timer's callback after its catch: setInterval stays armed
AfterCatchBadAsDisarmed == [kind |-> "autoSave", pc |-> "stopped"]
AfterCatch == Idle

\* the rejection of saveDatabase reaches its caller: the callback of
\* startAutoSave catches and logs it, a handler lets it go to the error
\* handler, which replies 500
SaveCaught(p) ==
    /\ procs[p] # Idle
    /\ procs[p].pc = "failed"
    /\ IF procs[p].kind = "autoSave"
       THEN /\ procs' = [procs EXCEPT ![p] = AfterCatch]
            /\ UNCHANGED reply
       ELSE /\ procs' = [procs EXCEPT ![p] = Idle]
            /\ Send(procs[p].kind, 500)
    /\ UNCHANGED <<sqlite, file>>

----------------------------------------------------------------------------
(* Journal entries *)

\* createJournalEntrySchema.parse
CreateJournalEntrySchema(req) ==
    /\ req.amount > 0
    /\ req.debitAccountId # req.creditAccountId

\* the first issue of the ZodError that createJournalEntrySchema.parse throws
SchemaIssue(req) ==
    IF req.amount <= 0
    THEN "amount must be positive"
    ELSE "Debit and credit accounts must be different"

\* the lookups of POST /api/journal-entries that find nothing, in the order
\* the handler makes them; it replies with the first
JePostLookups(db, req) ==
    (IF req.debitAccountId \notin DOMAIN db.subledgerAccounts
     THEN <<"Debit account not found">> ELSE <<>>)
    \o (IF req.creditAccountId \notin DOMAIN db.subledgerAccounts
        THEN <<"Credit account not found">> ELSE <<>>)
    \o (IF req.currencyCode \notin DOMAIN db.currencies
        THEN <<"Currency not found">> ELSE <<>>)

\* POST /api/journal-entries
JePost(p, req) ==
    /\ procs[p] = Idle
    /\ IF ~CreateJournalEntrySchema(req)
       THEN RejectAs(p, "jePost", 500, SchemaIssue(req))
       ELSE IF JePostLookups(sqlite, req) # <<>>
       THEN RejectAs(p, "jePost", 404, JePostLookups(sqlite, req)[1])
       ELSE
         /\ NextJournalEntryId(sqlite) <= MaxJournalEntryId
         /\ LET e == [entryDate |-> req.entryDate,
                      amount |-> req.amount,
                      currencyCode |-> req.currencyCode,
                      amountInUSD |->
                          Round2(req.amount,
                                 sqlite.currencies[req.currencyCode].exchangeRate),
                      debitAccountId |-> req.debitAccountId,
                      creditAccountId |-> req.creditAccountId]
            IN Written(p, "jePost", req, InsertJournalEntry(sqlite, e))

\* the check of PUT /api/journal-entries/:id that the two legs differ
PutLegsDiffer(db, req) ==
    ("debitAccountId" \in DOMAIN req.set /\ "creditAccountId" \in DOMAIN req.set)
        => req.set.debitAccountId # req.set.creditAccountId

\* updateData of PUT /api/journal-entries/:id
UpdateDataBadAsAmountOnly(db, req) ==
    IF "amount" \in DOMAIN req.set
    THEN [c \in DOMAIN req.set \cup {"amountInUSD"} |->
            IF c = "amountInUSD"
            THEN Round2(req.set.amount,
                        db.currencies[IF "currencyCode" \in DOMAIN req.set
                                      THEN req.set.currencyCode
                                      ELSE db.journalEntries[req.id].currencyCode]
                            .exchangeRate)
            ELSE req.set[c]]
    ELSE req.set
UpdateData(db, req) ==
    IF "amount" \in DOMAIN req.set \/ "currencyCode" \in DOMAIN req.set
    THEN LET existing == db.journalEntries[req.id]
             currencyCode == IF "currencyCode" \in DOMAIN req.set
                             THEN req.set.currencyCode ELSE existing.currencyCode
             amount == IF "amount" \in DOMAIN req.set
                       THEN req.set.amount ELSE existing.amount
         IN [c \in DOMAIN req.set \cup {"amountInUSD"} |->
                IF c = "amountInUSD"
                THEN Round2(amount, db.currencies[currencyCode].exchangeRate)
                ELSE req.set[c]]
    ELSE req.set

\* the currency PUT /api/journal-entries/:id looks up, if it looks one up
PutCurrencyFound(db, req) ==
    ("amount" \in DOMAIN req.set \/ "currencyCode" \in DOMAIN req.set)
        => (IF "currencyCode" \in DOMAIN req.set
            THEN req.set.currencyCode
            ELSE db.journalEntries[req.id].currencyCode) \in DOMAIN db.currencies

\* PUT /api/journal-entries/:id
JePut(p, req) ==
    /\ procs[p] = Idle
    /\ IF "amount" \in DOMAIN req.set /\ req.set.amount <= 0
       THEN Reject(p, "jePut", req, 500)
       ELSE IF req.id \notin DOMAIN sqlite.journalEntries
       THEN Reject(p, "jePut", req, 404)
       ELSE IF ~PutLegsDiffer(sqlite, req)
       THEN Reject(p, "jePut", req, 400)
       ELSE IF /\ "debitAccountId" \in DOMAIN req.set
               /\ req.set.debitAccountId \notin DOMAIN sqlite.subledgerAccounts
       THEN Reject(p, "jePut", req, 404)
       ELSE IF /\ "creditAccountId" \in DOMAIN req.set
               /\ req.set.creditAccountId \notin DOMAIN sqlite.subledgerAccounts
       THEN Reject(p, "jePut", req, 404)
       ELSE IF ~PutCurrencyFound(sqlite, req)
       THEN Reject(p, "jePut", req, 404)
       ELSE Written(p, "jePut", req,
                [sqlite EXCEPT !.journalEntries[req.id] =
                    SetColumns(@, UpdateData(sqlite, req))])

\* db.delete(journalEntries).where(id = :id): the attachments of the entry go
\* with it (ON DELETE cascade)
DeleteJournalEntryBadAsNoCascade(db, id) ==
    [db EXCEPT !.journalEntries = Without(@, id)]
DeleteJournalEntry(db, id) ==
    [db EXCEPT
        !.journalEntries = Without(@, id),
        !.attachments =
            [a \in {x \in DOMAIN @ : @[x].journalEntryId # id} |-> @[a]]]

\* DELETE /api/journal-entries/:id
JeDelete(p, req) ==
    /\ procs[p] = Idle
    /\ IF req.id \notin DOMAIN sqlite.journalEntries
       THEN Reject(p, "jeDelete", req, 404)
       ELSE Written(p, "jeDelete", req, DeleteJournalEntry(sqlite, req.id))

----------------------------------------------------------------------------
(* Currencies *)

\* the handler is between two awaited statements: it holds its request
Holding(p, kind, pc, req) ==
    procs' = [procs EXCEPT ![p] = [kind |-> kind, pc |-> pc, req |-> req]]

\* db.update(currencies).set({ isDefault: false }).where(isDefault = true)
UnsetDefaults(db) ==
    [db EXCEPT !.currencies =
        [c \in DOMAIN @ |-> [@[c] EXCEPT !.isDefault = FALSE]]]

\* db.insert(currencies).values(validatedData), and what follows it: a
\* duplicate code fails the primary key and the error handler replies 409
InsertCurrency(p, req) ==
    IF req.code \in DOMAIN sqlite.currencies
    THEN /\ Send("curPost", 409)
         /\ procs' = [procs EXCEPT ![p] = Idle]
         /\ UNCHANGED <<sqlite, file>>
    ELSE /\ sqlite' = [sqlite EXCEPT !.currencies =
                With(@, req.code, [exchangeRate |-> req.exchangeRate,
                                   isDefault |-> req.isDefault])]
         /\ procs' = [procs EXCEPT ![p] = [kind |-> "curPost", pc |-> "audit"]]
         /\ UNCHANGED <<file, reply>>

\* POST /api/currencies, up to its first write
CurPost(p, req) ==
    /\ procs[p] = Idle
    /\ IF req.exchangeRate <= 0
       THEN Reject(p, "curPost", req, 500)
       ELSE IF req.isDefault
       THEN /\ sqlite' = UnsetDefaults(sqlite)
            /\ Holding(p, "curPost", "insert", req)
            /\ UNCHANGED <<file, reply>>
       ELSE InsertCurrency(p, req)

\* POST /api/currencies, the insert after the defaults were unset
CurPostInsert(p) ==
    /\ procs[p] # Idle
    /\ procs[p].kind = "curPost"
    /\ procs[p].pc = "insert"
    /\ InsertCurrency(p, procs[p].req)

\* db.update(currencies).set(validatedData).where(code = :code)
UpdateCurrency(p, req) ==
    /\ sqlite' = IF req.code \in DOMAIN sqlite.currencies
                 THEN [sqlite EXCEPT !.currencies[req.code] = SetColumns(@, req.set)]
                 ELSE sqlite
    /\ procs' = [procs EXCEPT ![p] = [kind |-> "curPut", pc |-> "audit"]]
    /\ UNCHANGED <<file, reply>>

\* PUT /api/currencies/:code, up to its first write
CurPut(p, req) ==
    /\ procs[p] = Idle
    /\ IF "exchangeRate" \in DOMAIN req.set /\ req.set.exchangeRate <= 0
       THEN Reject(p, "curPut", req, 500)
       ELSE IF req.code \notin DOMAIN sqlite.currencies
       THEN Reject(p, "curPut", req, 404)
       ELSE IF "isDefault" \in DOMAIN req.set /\ req.set.isDefault
       THEN /\ sqlite' = UnsetDefaults(sqlite)
            /\ Holding(p, "curPut", "update", req)
            /\ UNCHANGED <<file, reply>>
       ELSE UpdateCurrency(p, req)

\* PUT /api/currencies/:code, the update after the defaults were unset
CurPutUpdate(p) ==
    /\ procs[p] # Idle
    /\ procs[p].kind = "curPut"
    /\ procs[p].pc = "update"
    /\ UpdateCurrency(p, procs[p].req)

\* DELETE /api/currencies/:code up to its checks of the row it has read
CurDelete(p, req) ==
    /\ procs[p] = Idle
    /\ IF req.code \notin DOMAIN sqlite.currencies
       THEN Reject(p, "curDelete", req, 404)
       ELSE IF sqlite.currencies[req.code].isDefault
       THEN Reject(p, "curDelete", req, 400)
       ELSE /\ Holding(p, "curDelete", "delete", req)
            /\ UNCHANGED <<sqlite, file, reply>>

\* DELETE /api/currencies/:code from db.delete(currencies) on: a currency
\* that is referenced fails the foreign key and the error handler replies 400
CurDeleteRow(p) ==
    /\ procs[p] # Idle
    /\ procs[p].kind = "curDelete"
    /\ procs[p].pc = "delete"
    /\ IF CurrencyReferenced(sqlite, procs[p].req.code)
       THEN /\ Send("curDelete", 400)
            /\ procs' = [procs EXCEPT ![p] = Idle]
            /\ UNCHANGED <<sqlite, file>>
       ELSE /\ sqlite' = [sqlite EXCEPT !.currencies = Without(@, procs[p].req.code)]
            /\ procs' = [procs EXCEPT ![p] = [kind |-> "curDelete", pc |-> "audit"]]
            /\ UNCHANGED <<file, reply>>

\* await logAudit(...): the handler goes on to `await saveDatabase()'
LogAudit(p) ==
    /\ procs[p] # Idle
    /\ procs[p].pc = "audit"
    /\ procs' = [procs EXCEPT ![p] = Put(@, "pc", "export")]
    /\ UNCHANGED <<sqlite, file, reply>>

----------------------------------------------------------------------------
(* GL accounts and subledger accounts *)

NumberTaken(t, accountNumber, self) ==
    \E k \in DOMAIN t \ self : t[k].accountNumber = accountNumber

Audited(p, kind, db) ==
    /\ sqlite' = db
    /\ procs' = [procs EXCEPT ![p] = [kind |-> kind, pc |-> "audit"]]
    /\ UNCHANGED <<file, reply>>

\* POST /api/gl-accounts
GlPost(p, req) ==
    /\ procs[p] = Idle
    /\ IF NumberTaken(sqlite.glAccounts, req.accountNumber, {})
       THEN Reject(p, "glPost", req, 409)
       ELSE /\ sqlite.seq.glAccounts < MaxAccountId
            /\ Audited(p, "glPost",
                [sqlite EXCEPT !.glAccounts = With(@, sqlite.seq.glAccounts + 1, req),
                               !.seq.glAccounts = @ + 1])

\* PUT /api/gl-accounts/:id
GlPut(p, req) ==
    /\ procs[p] = Idle
    /\ IF req.id \notin DOMAIN sqlite.glAccounts
       THEN Reject(p, "glPut", req, 404)
       ELSE IF /\ "accountNumber" \in DOMAIN req.set
               /\ NumberTaken(sqlite.glAccounts, req.set.accountNumber, {req.id})
       THEN Reject(p, "glPut", req, 409)
       ELSE Audited(p, "glPut",
                [sqlite EXCEPT !.glAccounts[req.id] = SetColumns(@, req.set)])

\* DELETE /api/gl-accounts/:id
GlDelete(p, req) ==
    /\ procs[p] = Idle
    /\ IF req.id \notin DOMAIN sqlite.glAccounts
       THEN Reject(p, "glDelete", req, 404)
       ELSE IF GlAccountReferenced(sqlite, req.id)
       THEN Reject(p, "glDelete", req, 400)
       ELSE Audited(p, "glDelete",
                [sqlite EXCEPT !.glAccounts = Without(@, req.id)])

\* POST /api/subledger-accounts
SubPost(p, req) ==
    /\ procs[p] = Idle
    /\ IF req.glAccountId \notin DOMAIN sqlite.glAccounts
       THEN Reject(p, "subPost", req, 404)
       ELSE IF req.currencyCode \notin DOMAIN sqlite.currencies
       THEN Reject(p, "subPost", req, 404)
       ELSE IF NumberTaken(sqlite.subledgerAccounts, req.accountNumber, {})
       THEN Reject(p, "subPost", req, 409)
       ELSE /\ sqlite.seq.subledgerAccounts < MaxAccountId
            /\ Written(p, "subPost", req,
                [sqlite EXCEPT
                    !.subledgerAccounts = With(@, sqlite.seq.subledgerAccounts + 1, req),
                    !.seq.subledgerAccounts = @ + 1])

\* PUT /api/subledger-accounts/:id
SubPut(p, req) ==
    /\ procs[p] = Idle
    /\ IF req.id \notin DOMAIN sqlite.subledgerAccounts
       THEN Reject(p, "subPut", req, 404)
       ELSE IF /\ "glAccountId" \in DOMAIN req.set
               /\ req.set.glAccountId \notin DOMAIN sqlite.glAccounts
       THEN Reject(p, "subPut", req, 404)
       ELSE IF /\ "currencyCode" \in DOMAIN req.set
               /\ req.set.currencyCode \notin DOMAIN sqlite.currencies
       THEN Reject(p, "subPut", req, 404)
       ELSE IF /\ "accountNumber" \in DOMAIN req.set
               /\ NumberTaken(sqlite.subledgerAccounts, req.set.accountNumber, {req.id})
       THEN Reject(p, "subPut", req, 409)
       ELSE Written(p, "subPut", req,
                [sqlite EXCEPT !.subledgerAccounts[req.id] = SetColumns(@, req.set)])

\* DELETE /api/subledger-accounts/:id
SubDelete(p, req) ==
    /\ procs[p] = Idle
    /\ IF req.id \notin DOMAIN sqlite.subledgerAccounts
       THEN Reject(p, "subDelete", req, 404)
       ELSE IF SubledgerReferenced(sqlite, req.id)
       THEN Reject(p, "subDelete", req, 400)
       ELSE Written(p, "subDelete", req,
                [sqlite EXCEPT !.subledgerAccounts = Without(@, req.id)])

----------------------------------------------------------------------------
(* Attachments *)

\* POST /api/attachments?journalEntryId=, up to the upload: the entry is
\* looked up, then the file is received and written to the uploads directory
AttPost(p, req) ==
    /\ procs[p] = Idle
    /\ IF req.journalEntryId \notin DOMAIN sqlite.journalEntries
       THEN Reject(p, "attPost", req, 404)
       ELSE /\ Holding(p, "attPost", "insert", req)
            /\ UNCHANGED <<sqlite, file, reply>>

\* POST /api/attachments, the insert: the foreign key fails if the entry is
\* gone, and the error handler replies 400
AttInsert(p) ==
    /\ procs[p] # Idle
    /\ procs[p].kind = "attPost"
    /\ procs[p].pc = "insert"
    /\ IF procs[p].req.journalEntryId \notin DOMAIN sqlite.journalEntries
       THEN /\ Send("attPost", 400)
            /\ procs' = [procs EXCEPT ![p] = Idle]
            /\ UNCHANGED <<sqlite, file>>
       ELSE /\ sqlite.seq.attachments < MaxAttachmentId
            /\ Audited(p, "attPost",
                [sqlite EXCEPT
                    !.attachments = With(@, sqlite.seq.attachments + 1,
                        [journalEntryId |-> procs[p].req.journalEntryId]),
                    !.seq.attachments = @ + 1])

\* DELETE /api/attachments/:id
AttDelete(p, req) ==
    /\ procs[p] = Idle
    /\ IF req.id \notin DOMAIN sqlite.attachments
       THEN Reject(p, "attDelete", req, 404)
       ELSE Audited(p, "attDelete",
                [sqlite EXCEPT !.attachments = Without(@, req.id)])

----------------------------------------------------------------------------
(* CSV import.  The fields of a record are the strings of the file. *)

\* new Date(record.Date): the day it denotes, 0 for an Invalid Date
ParseDate(str) ==
    CASE str = "2024-01-01" -> 1
      [] str = "2024-02-01" -> 2
      [] OTHER -> 0

\* isNaN(parseFloat(record.Amount))
IsNaNAmount(str) == str \notin {"0", "0.015", "1.00", "-1.00"}

\* parseFloat(record.Amount), in thousandths
ParseFloat(str) ==
    CASE str = "0.015" -> 15
      [] str = "1.00" -> 1000
      [] str = "-1.00" -> 0 - 1000
      [] OTHER -> 0

\* select().from(subledgerAccounts).where(accountNumber = :n).limit(1)
SubledgerByNumber(db, accountNumber) ==
    {k \in DOMAIN db.subledgerAccounts :
        db.subledgerAccounts[k].accountNumber = accountNumber}

\* the error thrown for a record in phase 1, "" if none is thrown
RowError(db, record) ==
    LET debit == SubledgerByNumber(db, record.Debit)
        credit == SubledgerByNumber(db, record.Credit)
        currencyCode == IF record.Currency = "" THEN "USD" ELSE record.Currency
    IN  IF ParseDate(record.Date) = 0 THEN "Invalid date"
        ELSE IF debit = {} THEN "Debit account not found"
        ELSE IF credit = {} THEN "Credit account not found"
        ELSE IF debit = credit THEN "Debit and credit accounts must be different"
        ELSE IF IsNaNAmount(record.Amount) \/ ParseFloat(record.Amount) <= 0
        THEN "Invalid amount"
        ELSE IF currencyCode \notin DOMAIN db.currencies THEN "Currency not found"
        ELSE ""

\* the entry phase 1 prepares from a record that passed
ValidatedEntry(db, record) ==
    LET currencyCode == IF record.Currency = "" THEN "USD" ELSE record.Currency
        amount == ParseFloat(record.Amount)
    IN  [entryDate |-> ParseDate(record.Date),
         amount |-> amount,
         currencyCode |-> currencyCode,
         amountInUSD |-> Round2(amount, db.currencies[currencyCode].exchangeRate),
         debitAccountId |-> CHOOSE k \in SubledgerByNumber(db, record.Debit) : TRUE,
         creditAccountId |-> CHOOSE k \in SubledgerByNumber(db, record.Credit) : TRUE]

\* `Row ${i + 2}' for the record at index i of `records', counted from 0
RowLabel(i) == i + 2

\* POST /api/journal-entries/import/csv: the file is read and parsed; the
\* response of the import is yet to be sent
CsvImport(p, records) ==
    /\ procs[p] = Idle
    /\ procs' = [procs EXCEPT ![p] =
            IF records = <<>>
            THEN [kind |-> "csvImport", pc |-> "export", success |-> 0]
            ELSE [kind |-> "csvImport", pc |-> "validate", records |-> records,
                  i |-> 0, validatedEntries |-> <<>>, failed |-> 0, errors |-> <<>>]]
    /\ reply' = NoReply
    /\ UNCHANGED <<sqlite, file>>

\* if (results.failed > 0) after phase 1
ValidationFailedBadAsMoreThanOne(failed) == failed > 1
ValidationFailed(failed) == failed > 0

\* i < records.length, the condition of the loop of phase 1: it goes on
\* whatever has failed so far
ValidationGoesOnBadAsUntilFailure(i, records, failed) ==
    i < Len(records) /\ failed = 0
ValidationGoesOn(i, records, failed) == i < Len(records)

\* phase 1, one turn of the loop; after its last turn the handler replies 400
\* or goes on to phase 2
CsvValidate(p) ==
    /\ procs[p] # Idle
    /\ procs[p].pc = "validate"
    /\ LET pr == procs[p]
           record == pr.records[pr.i + 1]
           error == RowError(sqlite, record)
           failed == IF error = "" THEN pr.failed ELSE pr.failed + 1
           errors == IF error = "" THEN pr.errors
                     ELSE Append(pr.errors, [row |-> RowLabel(pr.i), message |-> error])
           validatedEntries ==
                IF error = ""
                THEN Append(pr.validatedEntries, ValidatedEntry(sqlite, record))
                ELSE pr.validatedEntries
       IN  IF ValidationGoesOn(pr.i + 1, pr.records, failed)
           THEN /\ procs' = [procs EXCEPT ![p] =
                        [pr EXCEPT !.i = @ + 1, !.failed = failed, !.errors = errors,
                                   !.validatedEntries = validatedEntries]]
                /\ UNCHANGED reply
           ELSE IF ValidationFailed(failed)
           THEN /\ procs' = [procs EXCEPT ![p] = Idle]
                /\ reply' = [kind |-> "csvImport", status |-> 400, success |-> 0,
                             failed |-> failed, errors |-> errors]
           ELSE /\ procs' = [procs EXCEPT ![p] =
                        [kind |-> "csvImport", pc |-> "commit", j |-> 1,
                         validatedEntries |-> validatedEntries, success |-> 0]]
                /\ UNCHANGED reply
    /\ UNCHANGED <<sqlite, file>>

\* phase 2, one turn of the loop: an insert that the database refuses throws,
\* and the error handler replies; nothing is rolled back
CsvCommit(p) ==
    /\ procs[p] # Idle
    /\ procs[p].pc = "commit"
    /\ LET pr == procs[p]
           e == pr.validatedEntries[pr.j]
       IN  IF ~(JournalForeignKeys(sqlite, e) /\ InsertTriggers(e))
           THEN /\ procs' = [procs EXCEPT ![p] = Idle]
                /\ reply' = [kind |-> "csvImport",
                             status |-> IF InsertTriggers(e) THEN 400 ELSE 500]
                /\ UNCHANGED sqlite
           ELSE /\ NextJournalEntryId(sqlite) <= MaxJournalEntryId
                /\ sqlite' = InsertJournalEntry(sqlite, e)
                /\ procs' = [procs EXCEPT ![p] =
                        IF pr.j < Len(pr.validatedEntries)
                        THEN [pr EXCEPT !.j = @ + 1, !.success = @ + 1]
                        ELSE [kind |-> "csvImport", pc |-> "export",
                              success |-> pr.success + 1]]
                /\ UNCHANGED reply
    /\ UNCHANGED file

----------------------------------------------------------------------------
(* Reports.  Dates are days; a range holds startDate, endDate, both or none *)

RECURSIVE Sum(_, _)
Sum(f, S) ==
    IF S = {} THEN 0
    ELSE LET x == CHOOSE y \in S : TRUE IN f[x] + Sum(f, S \ {x})

Abs(x) == IF x < 0 THEN 0 - x ELSE x

GlType(db, a) == db.glAccounts[db.subledgerAccounts[a].glAccountId].type

\* the accounts calculateBalances selects: active subledger accounts joined
\* to a GL account whose type is not 'Opening Balance'
ReportedAccounts(db) ==
    {a \in DOMAIN db.subledgerAccounts :
        /\ db.subledgerAccounts[a].isActive
        /\ db.subledgerAccounts[a].glAccountId \in DOMAIN db.glAccounts
        /\ GlType(db, a) # "Opening Balance"}

\* the journal entries calculateBalances selects
EntriesInRange(db, range) ==
    {j \in DOMAIN db.journalEntries :
        /\ "startDate" \in DOMAIN range
                => db.journalEntries[j].entryDate >= range.startDate
        /\ "endDate" \in DOMAIN range
                => db.journalEntries[j].entryDate <= range.endDate}

\* what one entry adds to the balance of account a of GL type `type'
Posting(a, type, e) ==
    (IF e.debitAccountId = a
     THEN IF type \in DebitNormal THEN e.amountInUSD ELSE 0 - e.amountInUSD
     ELSE 0)
    + (IF e.creditAccountId = a
       THEN IF type \in DebitNormal THEN 0 - e.amountInUSD ELSE e.amountInUSD
       ELSE 0)

\* the result of the account query of calculateBalances: the GL type of
\* every selected account
AccountRows(db) == [a \in ReportedAccounts(db) |-> GlType(db, a)]

\* the result of the entry query of calculateBalances
EntryRows(db, range) == [j \in EntriesInRange(db, range) |-> db.journalEntries[j]]

\* the balance loop of calculateBalances over the two results
Balances(accounts, entries) ==
    [a \in DOMAIN accounts |->
        Sum([j \in DOMAIN entries |-> Posting(a, accounts[a], entries[j])],
            DOMAIN entries)]

\* calculateBalances: the balance of every selected account
calculateBalances(db, range) == Balances(AccountRows(db), EntryRows(db, range))

\* the Balance Sheet made of the balances of calculateBalances
SheetOf(accounts, balances) ==
    LET Total(types) ==
            Sum(balances, {a \in DOMAIN balances : accounts[a] \in types})
        totalAssets == Total({"Asset", "Cash", "Accounts Receivable"})
        totalLiabilities == Total({"Accounts Payable"})
        totalEquity == Total({"Equity"})
        retainedEarnings == Total({"Profit"}) - Total({"Loss"})
    IN  [accounts |->
            {a \in DOMAIN balances :
                accounts[a] \in {"Asset", "Cash", "Accounts Receivable",
                                   "Accounts Payable", "Equity"}},
         totalAssets |-> totalAssets,
         totalLiabilities |-> totalLiabilities,
         totalEquity |-> totalEquity,
         retainedEarnings |-> retainedEarnings,
         balanced |->
            Abs(totalAssets - (totalLiabilities + totalEquity + retainedEarnings)) < 1]

\* GET /api/reports/balance-sheet
BalanceSheet(db, range) ==
    SheetOf(AccountRows(db), calculateBalances(db, Drop(range, {"startDate"})))

\* GET /api/reports/profit-loss
ProfitLoss(db, range) ==
    LET balances == calculateBalances(db, range)
        revenue == {a \in DOMAIN balances : GlType(db, a) = "Profit"}
        expenses == {a \in DOMAIN balances : GlType(db, a) = "Loss"}
        totalRevenue == Sum(balances, revenue)
        totalExpenses == Sum(balances, expenses)
    IN  [revenue |-> [a \in revenue |-> balances[a]],
         expenses |-> [a \in expenses |-> balances[a]],
         totalRevenue |-> totalRevenue,
         totalExpenses |-> totalExpenses,
         netIncome |-> totalRevenue - totalExpenses]

\* the debit and credit columns of a listed account of the Trial Balance
TrialColumnsBadAsNormalSide(isDebitAccount, balance) ==
    IF isDebitAccount
    THEN [debit |-> Abs(balance), credit |-> 0]
    ELSE [debit |-> 0, credit |-> Abs(balance)]
TrialColumns(isDebitAccount, balance) ==
    IF isDebitAccount
    THEN [debit |-> IF balance > 0 THEN balance ELSE 0,
          credit |-> IF balance < 0 THEN Abs(balance) ELSE 0]
    ELSE [debit |-> IF balance < 0 THEN Abs(balance) ELSE 0,
          credit |-> IF balance > 0 THEN balance ELSE 0]

\* GET /api/reports/trial-balance: the accounts listed are those whose
\* balance is more than a cent from zero, each with its balance in its debit
\* or its credit column
TrialBalance(db, range) ==
    LET balances == calculateBalances(db, Drop(range, {"startDate"}))
        accountsWithBalances == {a \in DOMAIN balances : Abs(balances[a]) > 1}
        isDebitAccount(a) == GlType(db, a) \in DebitNormal
        debit == [a \in accountsWithBalances |->
                    TrialColumns(isDebitAccount(a), balances[a]).debit]
        credit == [a \in accountsWithBalances |->
                    TrialColumns(isDebitAccount(a), balances[a]).credit]
        totalDebits == Sum(debit, accountsWithBalances)
        totalCredits == Sum(credit, accountsWithBalances)
    IN  [accounts |-> accountsWithBalances,
         debit |-> debit,
         credit |-> credit,
         totalDebits |-> totalDebits,
         totalCredits |-> totalCredits,
         balanced |-> Abs(totalDebits - totalCredits) < 1]

\* the account lookup of the ledger: the subledger account of the id joined
\* to its GL account; an empty result is answered 404
LedgerAccount(db, accountId) ==
    {a \in DOMAIN db.subledgerAccounts :
        /\ a = accountId
        /\ db.subledgerAccounts[a].glAccountId \in DOMAIN db.glAccounts}

\* the rows the ledger query can return for an account, `ORDER BY entry_date
\* DESC', entries of one date in any order. and(...conditions) joins the
\* conditions with ` and ' and puts none of them in parentheses; the first is
\* the text `debit_account_id = ? OR credit_account_id = ?', so the WHERE
\* clause reads  debit = ? OR (credit = ? AND entry_date >= ? AND ...)
LedgerTransactions(db, accountId, range) ==
    LET ids == {j \in DOMAIN db.journalEntries :
                    \/ db.journalEntries[j].debitAccountId = accountId
                    \/ /\ db.journalEntries[j].creditAccountId = accountId
                       /\ j \in EntriesInRange(db, range)}
        n == Cardinality(ids)
    IN  {tx \in [1..n -> ids] :
            /\ \A k, l \in 1..n : k # l => tx[k] # tx[l]
            /\ \A k \in 1..n : k < n =>
                    db.journalEntries[tx[k]].entryDate
                        >= db.journalEntries[tx[k + 1]].entryDate}

\* runningBalance of the ledger after the first k rows of the query
RunningBalanceBadAsOwnAmount(db, accountId, transactions, k) ==
    IF k = 0 THEN 0
    ELSE Posting(accountId, GlType(db, accountId), db.journalEntries[transactions[k]])
RunningBalance(db, accountId, transactions, k) ==
    Sum([l \in 1..k |-> Posting(accountId, GlType(db, accountId),
                                db.journalEntries[transactions[l]])], 1..k)

\* GET /api/reports/account-ledger/:id, for one order of the rows: the
\* running balance is added up over the rows as the query returns them, and
\* the annotated rows are then reversed
AccountLedger(db, accountId, transactions) ==
    LET n == Len(transactions)
        entry(k) == db.journalEntries[transactions[k]]
        runningBalance(k) == RunningBalance(db, accountId, transactions, k)
        ledgerEntries ==
            [k \in 1..n |->
                [id |-> transactions[k],
                 entryDate |-> entry(k).entryDate,
                 debit |-> IF entry(k).debitAccountId = accountId
                           THEN entry(k).amountInUSD ELSE 0,
                 credit |-> IF entry(k).creditAccountId = accountId
                            THEN entry(k).amountInUSD ELSE 0,
                 balance |-> runningBalance(k)]]
    IN  [entries |-> [k \in 1..n |-> ledgerEntries[n + 1 - k]],
         finalBalance |-> runningBalance(n)]

----------------------------------------------------------------------------
(* The database a run starts from: the image loaded from the backing file *)

ChartOfAccounts ==
    [currencies |->
        [c \in {"USD", "EUR"} |->
            [exchangeRate |-> IF c = "USD" THEN 100 ELSE 150,
             isDefault |-> c = "USD"]],
     glAccounts |->
        [g \in {1, 2, 3} |->
            [accountNumber |-> <<"1000", "2000", "4000">>[g],
             type |-> <<"Asset", "Accounts Payable", "Profit">>[g],
             isActive |-> TRUE]],
     subledgerAccounts |->
        [a \in {1, 2, 3} |->
            [glAccountId |-> a,
             accountNumber |-> <<"1001", "2001", "4001">>[a],
             currencyCode |-> "USD",
             isActive |-> TRUE]],
     journalEntries |-> <<>>,
     attachments |-> <<>>,
     seq |-> [glAccounts |-> 3, subledgerAccounts |-> 3, journalEntries |-> 0,
              attachments |-> 0]]

Loaded(db) ==
    /\ sqlite = db
    /\ file = WholeFile(db)
    /\ procs = [p \in Procs |-> Idle]
    /\ reply = NoReply

----------------------------------------------------------------------------
(* Spec: journal-entry requests, one at a time *)

JournalPosts ==
    [entryDate : {1}, amount : {0, 1000}, currencyCode : {"USD", "XXX"},
     debitAccountId : {1, 2, 9}, creditAccountId : {1, 2, 9}]

JournalPutBodies ==
    {[debitAccountId |-> d] : d \in {1, 2, 9}}
    \cup {[creditAccountId |-> c] : c \in {1, 2, 9}}
    \cup {[debitAccountId |-> d, creditAccountId |-> c] : d \in {1, 2}, c \in {1, 2}}
    \cup {[amount |-> a] : a \in {0, 1000}}
    \cup {[currencyCode |-> c] : c \in {"USD", "XXX"}}

JournalIds == 1..(MaxJournalEntryId + 1)

Init == Loaded(ChartOfAccounts)

Next ==
    \/ \E req \in JournalPosts : JePost(1, req)
    \/ \E id \in JournalIds, set \in JournalPutBodies :
            JePut(1, [id |-> id, set |-> set])
    \/ \E id \in JournalIds : JeDelete(1, [id |-> id])
    \/ saveDatabase(1)

Spec == Init /\ [][Next]_vars

----------------------------------------------------------------------------
(* Claims checked under Spec *)

\* the admission checks of a journal entry: positive amount, known currency,
\* debit leg other than credit leg, known debit and credit subledger
Admissible(db, e) ==
    /\ e.amount > 0
    /\ e.currencyCode \in DOMAIN db.currencies
    /\ e.debitAccountId # e.creditAccountId
    /\ e.debitAccountId \in DOMAIN db.subledgerAccounts
    /\ e.creditAccountId \in DOMAIN db.subledgerAccounts

\* an update is admitted if the entry exists and the entry it results in is
PutAdmissible(db, req) ==
    /\ req.id \in DOMAIN db.journalEntries
    /\ Admissible(db, SetColumns(db.journalEntries[req.id], req.set))

\* C1: every stored journal entry has a debit account other than its credit
\* account and a positive amount, whatever creates, updates, deletes and
\* imports led to it.
C1_LegsDifferAndAmountPositive ==
    \A j \in DOMAIN sqlite.journalEntries :
        /\ sqlite.journalEntries[j].debitAccountId
              # sqlite.journalEntries[j].creditAccountId
        /\ sqlite.journalEntries[j].amount > 0

\* C8: a create or update request that fails an admission check changes no
\* table and starts no checkpoint.
C8_InadmissibleRequestChangesNothing ==
    [][/\ \A req \in JournalPosts :
            (~Admissible(sqlite, req) /\ JePost(1, req))
                => UNCHANGED <<sqlite, file, procs>>
       /\ \A id \in JournalIds, set \in JournalPutBodies :
            (~PutAdmissible(sqlite, [id |-> id, set |-> set])
                /\ JePut(1, [id |-> id, set |-> set]))
                => UNCHANGED <<sqlite, file, procs>>]_vars

----------------------------------------------------------------------------
(* SpecRates: amounts, currencies and exchange rates, one request at a time *)

RatePosts ==
    [entryDate : {1}, amount : {15, 1000}, currencyCode : {"USD", "EUR"},
     debitAccountId : {1}, creditAccountId : {2}]

RatePutBodies ==
    {[amount |-> a] : a \in {15, 1000}}
    \cup {[currencyCode |-> c] : c \in {"USD", "EUR"}}
    \cup {[creditAccountId |-> 2]}

RateRows ==
    [Date : {"2024-01-01"}, Debit : {"1001"}, Credit : {"2001"},
     Amount : {"0.015"}, Currency : {"", "EUR"}]

\* the CSV files of one to MaxRows records over a set of rows
Files(rows) == UNION {[1..n -> rows] : n \in 1..MaxRows}

RateUpdates == {[code |-> "EUR", set |-> [exchangeRate |-> r]] : r \in {150, 250}}

NextRates ==
    \/ \E req \in RatePosts : JePost(1, req)
    \/ \E id \in 1..MaxJournalEntryId, set \in RatePutBodies :
            JePut(1, [id |-> id, set |-> set])
    \/ \E req \in RateUpdates : CurPut(1, req)
    \/ LogAudit(1)
    \/ \E records \in Files(RateRows) : CsvImport(1, records)
    \/ CsvValidate(1)
    \/ CsvCommit(1)
    \/ saveDatabase(1)

SpecRates == Init /\ [][NextRates]_vars

\* x thousandths in cents, to the nearest cent, a half going up
HalfUp(x) == CHOOSE n \in 0..x : 1000 * n <= x + 500 /\ x + 500 < 1000 * (n + 1)

Converted(db, e) == HalfUp(e.amount * db.currencies[e.currencyCode].exchangeRate)

\* C7 as stated: in every state every stored entry has amountInUSD =
\* round2(amount * the current exchange rate of its currency).
C7_AmountInUSDFollowsCurrentRate ==
    \A j \in DOMAIN sqlite.journalEntries :
        sqlite.journalEntries[j].amountInUSD
            = Converted(sqlite, sqlite.journalEntries[j])

\* C7 as amended: a step that creates an entry, or writes the amount or the
\* currency of one, leaves it with amountInUSD = round2(amount * the exchange
\* rate of its currency at that step); a step that changes an exchange rate
\* changes no entry; every other step leaves amountInUSD as it was, or sets
\* it again in the same way.
C7_AmountInUSDSetWhenWritten ==
    [][/\ \A j \in DOMAIN sqlite.journalEntries' :
            LET new == sqlite.journalEntries'[j]
            IN  IF \/ j \notin DOMAIN sqlite.journalEntries
                   \/ new.amount # sqlite.journalEntries[j].amount
                   \/ new.currencyCode # sqlite.journalEntries[j].currencyCode
                THEN new.amountInUSD = Converted(sqlite, new)
                ELSE \/ new.amountInUSD = sqlite.journalEntries[j].amountInUSD
                     \/ new.amountInUSD = Converted(sqlite, new)
       /\ sqlite.currencies' # sqlite.currencies
            => sqlite.journalEntries' = sqlite.journalEntries]_vars

\* two entries of the same amount and currency written at different rates
C7_Witness ==
    \E j, k \in DOMAIN sqlite.journalEntries :
        /\ sqlite.journalEntries[j].currencyCode = "EUR"
        /\ sqlite.journalEntries[k].currencyCode = "EUR"
        /\ sqlite.journalEntries[j].amount = 15
        /\ sqlite.journalEntries[k].amount = 15
        /\ sqlite.journalEntries[j].amountInUSD = 2
        /\ sqlite.journalEntries[k].amountInUSD = 4

----------------------------------------------------------------------------
(* SpecReports: entries on two days, accounts switched off and on, GL       *)
(* accounts retyped, one request at a time                                  *)

ReportPosts ==
    [entryDate : {1, 2}, amount : {1000}, currencyCode : {"USD"},
     debitAccountId : {1, 3}, creditAccountId : {2}]

ActiveUpdates ==
    {[id |-> a, set |-> [isActive |-> b]] : a \in {1, 2}, b \in BOOLEAN}

TypeUpdates ==
    {[id |-> 3, set |-> [type |-> t]] : t \in {"Profit", "Opening Balance"}}

NextReports ==
    \/ \E req \in ReportPosts : JePost(1, req)
    \/ \E id \in 1..MaxJournalEntryId : JeDelete(1, [id |-> id])
    \/ \E req \in ActiveUpdates : SubPut(1, req)
    \/ \E req \in TypeUpdates : GlPut(1, req)
    \/ LogAudit(1)
    \/ saveDatabase(1)

SpecReports == Init /\ [][NextReports]_vars

AsOfDates == {<<>>, [endDate |-> 1], [endDate |-> 2]}

\* every entry has both legs on subledger accounts of a GL type other than
\* Opening Balance
NoOpeningBalanceLegs(db) ==
    \A j \in DOMAIN db.journalEntries :
        /\ GlType(db, db.journalEntries[j].debitAccountId) # "Opening Balance"
        /\ GlType(db, db.journalEntries[j].creditAccountId) # "Opening Balance"

\* C3: when no entry touches an Opening Balance account, the Balance Sheet
\* for any as-of date reports balanced = true.
C3_BalanceSheetBalanced ==
    NoOpeningBalanceLegs(sqlite)
        => \A range \in AsOfDates : BalanceSheet(sqlite, range).balanced

\* the date ranges asked of the reports
ReportRanges == {<<>>, [endDate |-> 1], [startDate |-> 2]}

\* the subledger accounts of a GL account of type Opening Balance
OpeningBalanceAccounts(db) ==
    {a \in DOMAIN db.subledgerAccounts :
        /\ db.subledgerAccounts[a].glAccountId \in DOMAIN db.glAccounts
        /\ GlType(db, a) = "Opening Balance"}

\* C21: a subledger account of an Opening Balance GL account is listed in no
\* report and adds to no total: the Balance Sheet, the Profit & Loss and the
\* Trial Balance are what they are without the account, and the Account
\* Ledger does not report it.
C21_OpeningBalanceInNoReport ==
    \A a \in OpeningBalanceAccounts(sqlite), range \in ReportRanges :
        LET without == [sqlite EXCEPT !.subledgerAccounts = Without(@, a)]
        IN  /\ BalanceSheet(sqlite, range) = BalanceSheet(without, range)
            /\ ProfitLoss(sqlite, range) = ProfitLoss(without, range)
            /\ TrialBalance(sqlite, range) = TrialBalance(without, range)
            /\ a \notin BalanceSheet(sqlite, range).accounts
            /\ a \notin DOMAIN ProfitLoss(sqlite, range).revenue
            /\ a \notin DOMAIN ProfitLoss(sqlite, range).expenses
            /\ a \notin TrialBalance(sqlite, range).accounts
            /\ LedgerAccount(sqlite, a) = {}

----------------------------------------------------------------------------
(* SpecImport: CSV imports, one at a time *)

ImportRows ==
    {[Date |-> "2024-01-01", Debit |-> "1001", Credit |-> "2001",
      Amount |-> "1.00", Currency |-> ""],
     [Date |-> "yesterday", Debit |-> "1001", Credit |-> "2001",
      Amount |-> "1.00", Currency |-> ""],
     [Date |-> "2024-01-01", Debit |-> "9999", Credit |-> "2001",
      Amount |-> "1.00", Currency |-> ""],
     [Date |-> "2024-01-01", Debit |-> "1001", Credit |-> "1001",
      Amount |-> "1.00", Currency |-> ""],
     [Date |-> "2024-01-01", Debit |-> "1001", Credit |-> "2001",
      Amount |-> "abc", Currency |-> ""],
     [Date |-> "2024-01-01", Debit |-> "1001", Credit |-> "2001",
      Amount |-> "-1.00", Currency |-> ""],
     [Date |-> "2024-01-01", Debit |-> "1001", Credit |-> "2001",
      Amount |-> "1.00", Currency |-> "XXX"]}

NextImport ==
    \/ \E records \in Files(ImportRows) \cup {<<>>} : CsvImport(1, records)
    \/ CsvValidate(1)
    \/ CsvCommit(1)
    \/ saveDatabase(1)

SpecImport == Init /\ [][NextImport]_vars

\* a row that names a day, two different subledger accounts that exist, a
\* positive amount and a currency that exists (none given: USD)
RowValid(db, row) ==
    /\ row.Date \in {"2024-01-01", "2024-02-01"}
    /\ \E d, c \in DOMAIN db.subledgerAccounts :
            /\ d # c
            /\ db.subledgerAccounts[d].accountNumber = row.Debit
            /\ db.subledgerAccounts[c].accountNumber = row.Credit
    /\ row.Amount \in {"0.015", "1.00"}
    /\ row.Currency \in DOMAIN db.currencies \cup {""}

InvalidRows(db, records) == {k \in 1..Len(records) : ~RowValid(db, records[k])}

\* the import in progress holds a file whose only invalid row is row k
OnlyRowInvalid(k) ==
    /\ procs[1] # Idle
    /\ procs[1].kind = "csvImport"
    /\ procs[1].pc = "validate"
    /\ InvalidRows(sqlite, procs[1].records) = {k}

\* what the import of a file with one invalid row does, the error naming `row'
OneInvalidRowOutcome(row) ==
    /\ sqlite' = sqlite
    /\ \/ /\ procs'[1] # Idle
          /\ procs'[1].pc = "validate"
          /\ reply' = reply
       \/ /\ procs'[1] = Idle
          /\ reply'.kind = "csvImport"
          /\ reply'.success = 0
          /\ reply'.failed = 1
          /\ Len(reply'.errors) = 1
          /\ reply'.errors[1].row = row

\* C10 as stated: an import whose only invalid row is data row k adds no
\* entry and reports success 0, failed 1 and one error that names row k.
C10_ErrorNamesDataRow ==
    [][\A k \in 1..MaxRows : OnlyRowInvalid(k) => OneInvalidRowOutcome(k)]_vars

\* C10 as amended: an import whose only invalid row is data row k adds no
\* entry and reports success 0, failed 1 and one error that names row k + 1,
\* the line of the file the row is on, the header being line 1.
C10_ErrorNamesFileLine ==
    [][\A k \in 1..MaxRows : OnlyRowInvalid(k) => OneInvalidRowOutcome(k + 1)]_vars

C10_Witness ==
    /\ reply.kind = "csvImport"
    /\ reply.status = 400
    /\ reply.failed = 1
    /\ reply.errors[1].row = MaxRows + 1
    /\ sqlite.journalEntries # <<>>

----------------------------------------------------------------------------
(* SpecCurrency: currency requests, one at a time *)

CurrencyPosts ==
    [code : {"EUR", "GBP"}, exchangeRate : {0, 100}, isDefault : BOOLEAN]

CurrencyUpdates ==
    {[code |-> c, set |-> s] :
        c \in {"USD", "EUR", "GBP"},
        s \in {[isDefault |-> TRUE], [isDefault |-> FALSE], [exchangeRate |-> 200]}}

CurrencyDeletes == [code : {"USD", "EUR", "GBP"}]

NextCurrency ==
    \/ \E req \in CurrencyPosts : CurPost(1, req)
    \/ CurPostInsert(1)
    \/ \E req \in CurrencyUpdates : CurPut(1, req)
    \/ CurPutUpdate(1)
    \/ \E req \in CurrencyDeletes : CurDelete(1, req)
    \/ CurDeleteRow(1)
    \/ LogAudit(1)
    \/ saveDatabase(1)

SpecCurrency == Init /\ [][NextCurrency]_vars

\* C9: a create request whose code already exists is rejected, and no step of
\* it changes the currency table, the default flags included, also when the
\* request carries isDefault = true.
C9_RejectedCreateLeavesCurrencies ==
    [][/\ \A req \in CurrencyPosts :
            (req.code \in DOMAIN sqlite.currencies /\ CurPost(1, req))
                => sqlite.currencies' = sqlite.currencies
       /\ (CurPostInsert(1) /\ procs[1].req.code \in DOMAIN sqlite.currencies)
                => sqlite.currencies' = sqlite.currencies]_vars

----------------------------------------------------------------------------
(* SpecCurrencyRace: two currency requests at a time, each running from one *)
(* await to the next                                                        *)

RacePosts == [code : {"GBP"}, exchangeRate : {100}, isDefault : {TRUE}]

RaceUpdates ==
    {[code |-> c, set |-> [isDefault |-> TRUE]] : c \in {"USD", "EUR"}}

RaceDeletes == [code : {"GBP"}]

NextCurrencyRace ==
    \E p \in RequestProcs :
        \/ \E req \in RacePosts : CurPost(p, req)
        \/ CurPostInsert(p)
        \/ \E req \in RaceUpdates : CurPut(p, req)
        \/ CurPutUpdate(p)
        \/ \E req \in RaceDeletes : CurDelete(p, req)
        \/ CurDeleteRow(p)
        \/ LogAudit(p)
        \/ saveDatabase(p)

SpecCurrencyRace == Init /\ [][NextCurrencyRace]_vars

Defaults(db) == {c \in DOMAIN db.currencies : db.currencies[c].isDefault}

\* the step is the insert or update of a request of p that carries
\* isDefault = true and succeeds
SetsDefault(p) ==
    /\ procs[p] # Idle
    /\ procs[p].pc \in {"insert", "update"}
    /\ procs'[p] # Idle
    /\ procs'[p].pc = "audit"

\* C6: at most one currency is the default, however currency requests
\* interleave at their awaits, and right after the insert or update of a
\* request carrying isDefault = true its currency is the only default.
C6_OneDefaultCurrency ==
    [][/\ Cardinality(Defaults(sqlite')) <= 1
       /\ \A p \in RequestProcs :
            SetsDefault(p) => Defaults(sqlite') = {procs[p].req.code}]_vars

----------------------------------------------------------------------------
(* SpecCheckpoint: default switches by two requests at a time, and the      *)
(* auto-save timer                                                          *)

NextCheckpoint ==
    \/ \E p \in RequestProcs :
        \/ \E req \in RaceUpdates : CurPut(p, req)
        \/ CurPutUpdate(p)
        \/ LogAudit(p)
        \/ saveDatabase(p)
    \/ \E t \in TimerProcs :
        \/ AutoSave(t)
        \/ saveDatabase(t)

SpecCheckpoint == Init /\ [][NextCheckpoint]_vars

\* the executions of saveDatabase that have exported and not finished writing
Checkpointing == {p \in Procs : procs[p] # Idle /\ procs[p].pc \in {"open", "write"}}

\* C4: no two executions of saveDatabase are between their export and the end
\* of their write at the same time.
C4_CheckpointsExclusive == Cardinality(Checkpointing) <= 1

\* C5: when no write is under way the file holds one exported image, whole,
\* and that image is a state between requests: under default switches, one
\* with exactly one default currency.
C5_FileHoldsOneQuiescentImage ==
    (\A p \in Procs : procs[p] = Idle \/ procs[p].pc # "write")
        => /\ IsImage(file)
           /\ Cardinality(Defaults(file[1].image)) = 1

----------------------------------------------------------------------------
(* SpecImportRace: a CSV import, and requests on subledger accounts that    *)
(* run between its awaits                                                   *)

RaceRows ==
    [Date : {"2024-01-01"}, Debit : {"1001", "4001"}, Credit : {"2001"},
     Amount : {"1.00"}, Currency : {""}]

RaceAccounts == {[id |-> 1], [id |-> 3]}

NextImportRace ==
    \/ \E records \in Files(RaceRows) : CsvImport(1, records)
    \/ CsvValidate(1)
    \/ CsvCommit(1)
    \/ \E req \in RaceAccounts : SubDelete(2, req)
    \/ \E p \in RequestProcs : saveDatabase(p)

SpecImportRace == Init /\ [][NextImportRace]_vars

\* the import stops in its commit phase, on an insert the database refuses
CommitStops ==
    /\ procs[1] # Idle
    /\ procs[1].kind = "csvImport"
    /\ procs[1].pc = "commit"
    /\ procs'[1] = Idle

\* C2: an import commits all of its rows or none: when its commit phase
\* stops on a refused insert, no row of the file has been inserted, and the
\* journal-entry table is as the import found it.
C2_ImportAllOrNothing ==
    [][CommitStops
            => /\ procs[1].success = 0
               /\ sqlite.journalEntries' = sqlite.journalEntries]_vars

----------------------------------------------------------------------------
(* Claims checked under SpecImport: the report of the validation phase *)

\* the import in progress is in its validation phase
Validating ==
    /\ procs[1] # Idle
    /\ procs[1].kind = "csvImport"
    /\ procs[1].pc = "validate"

\* the error list names rows in input order, each of them an invalid row of
\* the file, by the line it is on
ErrorsInInputOrder(errors, invalid) ==
    /\ \A n \in 1..Len(errors) : errors[n].row - 1 \in invalid
    /\ \A n \in 1..(Len(errors) - 1) : errors[n].row < errors[n + 1].row

\* C11: validation goes on after a failure: an import with m >= 1 invalid
\* rows replies only after its last row, with failed = m and one error for
\* each invalid row in input order, and writes nothing.
C11_EveryInvalidRowReported ==
    [][(Validating /\ InvalidRows(sqlite, procs[1].records) # {})
        => LET invalid == InvalidRows(sqlite, procs[1].records)
           IN  /\ sqlite' = sqlite
               /\ \/ /\ procs'[1] # Idle
                     /\ procs'[1].pc = "validate"
                     /\ procs'[1].i = procs[1].i + 1
                     /\ reply' = reply
                  \/ /\ procs'[1] = Idle
                     /\ procs[1].i + 1 = Len(procs[1].records)
                     /\ reply'.kind = "csvImport"
                     /\ reply'.status = 400
                     /\ reply'.success = 0
                     /\ reply'.failed = Cardinality(invalid)
                     /\ Len(reply'.errors) = Cardinality(invalid)
                     /\ ErrorsInInputOrder(reply'.errors, invalid)]_vars

C11_Witness ==
    /\ reply.kind = "csvImport"
    /\ reply.status = 400
    /\ reply.failed = MaxRows
    /\ Len(reply.errors) = MaxRows
    /\ reply.errors[1].row = 2
    /\ sqlite.journalEntries # <<>>

----------------------------------------------------------------------------
(* Claims checked under SpecCheckpoint: acknowledged mutations and the file *)

\* no request and no checkpoint is under way: every mutation made so far has
\* been acknowledged to its caller
Quiet == \A p \in Procs : procs[p] = Idle

\* C12: once a mutation has returned to its caller the file holds it, and no
\* checkpoint that exported earlier writes over it: whenever nothing is under
\* way the file is the image of the in-memory database.
C12_AcknowledgedMutationStaysInFile == Quiet => file = WholeFile(sqlite)

----------------------------------------------------------------------------
(* SpecWriteFailure: exchange-rate updates, the auto-save timer, and writes *)
(* of the file that may fail.  The timer fires again and again, a callback  *)
(* of it having returned before the next one starts; a write that is        *)
(* attempted again and again succeeds in the end.                           *)

FailureUpdates ==
    {[code |-> "EUR", set |-> [exchangeRate |-> r]] : r \in {150, 250}}

\* the callback of the interval set by startAutoSave
Timer == MaxRequests + 1

NextWriteFailure ==
    \/ \E req \in FailureUpdates : CurPut(1, req)
    \/ LogAudit(1)
    \/ saveDatabase(1)
    \/ SaveFail(1)
    \/ SaveCaught(1)
    \/ AutoSave(Timer)
    \/ saveDatabase(Timer)
    \/ SaveFail(Timer)
    \/ SaveCaught(Timer)

TimerFairness ==
    /\ WF_vars(AutoSave(Timer))
    /\ WF_vars(SaveCaught(Timer))
    /\ WF_vars(SaveDone(Timer))
    /\ SF_vars(SaveOpen(Timer))
    /\ \A k \in 1..FileChunks :
            SF_vars(SaveWrite(Timer) /\ procs[Timer].pos = k)

SpecWriteFailure == Init /\ [][NextWriteFailure]_vars /\ TimerFairness

\* a write of the file has failed and its rejection is on its way
WriteFailed == \E p \in Procs : procs[p] # Idle /\ procs[p].pc = "failed"

\* a checkpoint started by the timer has written the whole of its image
TimerWritten == procs[Timer] # Idle /\ procs[Timer].pc = "written"

\* C13: a failed write leaves the in-memory database as it was; the timer
\* stays armed, each of its checkpoints exports the database as it is when
\* it fires, and after a failure one of them writes its image to the end.
C13_TimerCheckpointsAfterFailedWrite ==
    /\ [][/\ (\E p \in Procs : SaveFail(p) \/ SaveCaught(p)) => sqlite' = sqlite
          /\ AutoSave(Timer) => procs'[Timer].data = sqlite]_vars
    /\ WriteFailed ~> TimerWritten

C13_Witness ==
    /\ reply.kind = "curPut"
    /\ reply.status = 500
    /\ sqlite.currencies["EUR"].exchangeRate = 250
    /\ TimerWritten
    /\ file = WholeFile(sqlite)

----------------------------------------------------------------------------
(* Shutdown *)

\* no signal has arrived: the server listens and the auto-save timer is armed
NoSignal == \A h \in SignalProcs : procs[h] = Idle

\* SIGINT or SIGTERM: both handlers run.  The database module's clears the
\* timer and enters closeDatabase, which exports in saveDatabase; the
\* server's calls fastify.close()
Signal ==
    /\ NoSignal
    /\ procs' = [procs EXCEPT
            ![DbHandler] = [kind |-> "closeDatabase", pc |-> "open", data |-> sqlite],
            ![ServerHandler] = [kind |-> "shutdown", pc |-> "closing"]]
    /\ UNCHANGED <<sqlite, file, reply>>

\* process.exit(0): no callback runs any more
Exit ==
    /\ procs' = [p \in Procs |-> Exited]
    /\ UNCHANGED <<sqlite, file, reply>>

\* the database module's handler: closeDatabase has returned
CloseDatabaseExit ==
    /\ procs[DbHandler] # Idle
    /\ procs[DbHandler].pc = "written"
    /\ Exit

\* what the server's handler waits for before it exits: fastify.close(), the
\* requests in flight
ServerClosed == \A p \in RequestProcs : procs[p] = Idle

\* the server's handler: fastify.close() has resolved
ServerExit ==
    /\ procs[ServerHandler] # Idle
    /\ procs[ServerHandler].pc = "closing"
    /\ ServerClosed
    /\ Exit

----------------------------------------------------------------------------
(* SpecShutdown: exchange-rate updates and the auto-save timer until a      *)
(* signal arrives, then the two signal handlers                             *)

\* a request arrives while the server listens
CurPutWhileListening(p, req) == NoSignal /\ CurPut(p, req)

\* the timer fires while it is armed
AutoSaveWhileArmed(t) == NoSignal /\ AutoSave(t)

NextShutdown ==
    \/ \E req \in FailureUpdates : CurPutWhileListening(1, req)
    \/ LogAudit(1)
    \/ saveDatabase(1)
    \/ \E t \in TimerProcs :
        \/ AutoSaveWhileArmed(t)
        \/ saveDatabase(t)
    \/ Signal
    \/ SaveOpen(DbHandler)
    \/ SaveWrite(DbHandler)
    \/ CloseDatabaseExit
    \/ ServerExit

SpecShutdown == Init /\ [][NextShutdown]_vars

\* C14: the process exits on a signal only after a checkpoint of the final
\* in-memory database has been written: at exit the file is its image.
C14_FileIsFinalImageAtExit ==
    procs[DbHandler] = Exited => file = WholeFile(sqlite)

----------------------------------------------------------------------------
(* SpecIntegrity: requests on every table that holds or is the target of a
   reference; the second request at a time deletes a journal entry *)

IntegrityPosts ==
    [entryDate : {1}, amount : {1000}, currencyCode : {"EUR"},
     debitAccountId : {1, 9}, creditAccountId : {2}]

IntegrityPutBodies == {[debitAccountId |-> 9], [currencyCode |-> "XXX"]}

IntegrityEntries == {[id |-> 1]}

IntegritySubledgerUpdates ==
    {[id |-> 3, set |-> s] :
        s \in {[glAccountId |-> 9], [currencyCode |-> "XXX"]}}

IntegritySubledgers == {[id |-> 1]}

IntegrityGlAccounts == {[id |-> 1]}

IntegrityCurrencies == {[code |-> "EUR"]}

IntegrityUploads == {[journalEntryId |-> 1], [journalEntryId |-> 2]}

\* attachment 1 is never asked to be deleted: it goes with its entry or stays
IntegrityAttachments == {[id |-> 2], [id |-> 3]}

NextIntegrity ==
    \/ \E req \in IntegrityPosts : JePost(1, req)
    \/ \E e \in IntegrityEntries, set \in IntegrityPutBodies :
            JePut(1, [id |-> e.id, set |-> set])
    \/ \E req \in IntegritySubledgerUpdates : SubPut(1, req)
    \/ \E req \in IntegrityUploads : AttPost(1, req)
    \/ AttInsert(1)
    \/ \E req \in IntegrityAttachments : AttDelete(1, req)
    \/ \E req \in IntegritySubledgers : SubDelete(1, req)
    \/ \E req \in IntegrityGlAccounts : GlDelete(1, req)
    \/ \E req \in IntegrityCurrencies : CurDelete(1, req)
    \/ CurDeleteRow(1)
    \/ \E req \in IntegrityEntries : JeDelete(2, req)
    \/ \E p \in RequestProcs :
        \/ LogAudit(p)
        \/ saveDatabase(p)

SpecIntegrity == Init /\ [][NextIntegrity]_vars

ReferentialIntegrity ==
    /\ \A j \in DOMAIN sqlite.journalEntries :
        /\ sqlite.journalEntries[j].debitAccountId \in DOMAIN sqlite.subledgerAccounts
        /\ sqlite.journalEntries[j].creditAccountId \in DOMAIN sqlite.subledgerAccounts
        /\ sqlite.journalEntries[j].currencyCode \in DOMAIN sqlite.currencies
    /\ \A a \in DOMAIN sqlite.subledgerAccounts :
        /\ sqlite.subledgerAccounts[a].glAccountId \in DOMAIN sqlite.glAccounts
        /\ sqlite.subledgerAccounts[a].currencyCode \in DOMAIN sqlite.currencies
    /\ \A x \in DOMAIN sqlite.attachments :
        sqlite.attachments[x].journalEntryId \in DOMAIN sqlite.journalEntries

\* the attachments bound to the journal entries of a set
BoundTo(db, ids) == {x \in DOMAIN db.attachments : db.attachments[x].journalEntryId \in ids}

----------------------------------------------------------------------------
(* SpecRestrict: deletes of GL and subledger accounts, referenced or not *)

RestrictPosts ==
    [entryDate : {1}, amount : {1000}, currencyCode : {"USD"},
     debitAccountId : {1}, creditAccountId : {2, 3}]

RestrictEntries == {[id |-> 1], [id |-> 2]}

\* subledger accounts 2 and 3 are credit legs only
RestrictSubledgers == {[id |-> 2], [id |-> 3]}

RestrictGlPosts == {[accountNumber |-> "3000", type |-> "Equity", isActive |-> TRUE]}

RestrictGlAccounts == {[id |-> 1], [id |-> 2], [id |-> 4]}

NextRestrict ==
    \/ \E req \in RestrictPosts : JePost(1, req)
    \/ \E req \in RestrictEntries : JeDelete(1, req)
    \/ \E req \in RestrictSubledgers : SubDelete(1, req)
    \/ \E req \in RestrictGlPosts : GlPost(1, req)
    \/ \E req \in RestrictGlAccounts : GlDelete(1, req)
    \/ LogAudit(1)
    \/ saveDatabase(1)

SpecRestrict == Init /\ [][NextRestrict]_vars

\* the journal entries with a subledger account as a leg, and the subledger
\* accounts of a GL account
LegOf(id) ==
    {j \in DOMAIN sqlite.journalEntries :
        id \in {sqlite.journalEntries[j].debitAccountId,
                sqlite.journalEntries[j].creditAccountId}}

SubledgersOf(id) ==
    {a \in DOMAIN sqlite.subledgerAccounts :
        sqlite.subledgerAccounts[a].glAccountId = id}

Refused == reply'.status >= 400 /\ UNCHANGED <<sqlite, file, procs>>

----------------------------------------------------------------------------
(* SpecKeys: creates and updates of the rows that carry a unique key *)

KeyGlPosts == [accountNumber : {"1000", "3000"}, type : {"Equity"}, isActive : {TRUE}]

KeyGlUpdates ==
    {[id |-> 1, set |-> s] :
        s \in {[accountNumber |-> "1000"], [accountNumber |-> "2000"],
               [accountNumber |-> "5000"], [isActive |-> FALSE]}}

KeySubledgerPosts ==
    [glAccountId : {1}, accountNumber : {"1001", "1002"},
     currencyCode : {"USD"}, isActive : {TRUE}]

KeySubledgerUpdates ==
    {[id |-> 1, set |-> s] :
        s \in {[accountNumber |-> "1001"], [accountNumber |-> "2001"],
               [accountNumber |-> "1003"], [isActive |-> FALSE]}}

KeyCurrencyPosts == [code : {"EUR", "GBP"}, exchangeRate : {100}, isDefault : BOOLEAN]

NextKeys ==
    \/ \E req \in KeyGlPosts : GlPost(1, req)
    \/ \E req \in KeyGlUpdates : GlPut(1, req)
    \/ \E req \in KeySubledgerPosts : SubPost(1, req)
    \/ \E req \in KeySubledgerUpdates : SubPut(1, req)
    \/ \E req \in KeyCurrencyPosts : CurPost(1, req)
    \/ CurPostInsert(1)
    \/ LogAudit(1)
    \/ saveDatabase(1)

SpecKeys == Init /\ [][NextKeys]_vars

\* the rows of a table, other than row self, that carry an account number
Carrying(t, accountNumber, self) ==
    {k \in DOMAIN t : k # self /\ t[k].accountNumber = accountNumber}

Conflict == reply'.status = 409 /\ UNCHANGED <<sqlite, file, procs>>

\* C17: no two GL accounts and no two subledger accounts share an account
\* number (currencies are held by code, one row a code); and a create with a
\* number or code that a row carries, or an update to a number that another
\* row carries, is answered 409 and no step of it changes a table.
C17_KeysUniqueAndConflictChangesNothing ==
    /\ [](/\ \A g \in DOMAIN sqlite.glAccounts :
                Carrying(sqlite.glAccounts, sqlite.glAccounts[g].accountNumber, g) = {}
          /\ \A a \in DOMAIN sqlite.subledgerAccounts :
                Carrying(sqlite.subledgerAccounts,
                         sqlite.subledgerAccounts[a].accountNumber, a) = {})
    /\ [][/\ \A req \in KeyGlPosts :
                (Carrying(sqlite.glAccounts, req.accountNumber, 0) # {}
                    /\ GlPost(1, req)) => Conflict
          /\ \A req \in KeyGlUpdates :
                ("accountNumber" \in DOMAIN req.set
                    /\ Carrying(sqlite.glAccounts, req.set.accountNumber, req.id) # {}
                    /\ GlPut(1, req)) => Conflict
          /\ \A req \in KeySubledgerPosts :
                (Carrying(sqlite.subledgerAccounts, req.accountNumber, 0) # {}
                    /\ SubPost(1, req)) => Conflict
          /\ \A req \in KeySubledgerUpdates :
                ("accountNumber" \in DOMAIN req.set
                    /\ Carrying(sqlite.subledgerAccounts, req.set.accountNumber, req.id) # {}
                    /\ SubPut(1, req)) => Conflict
          /\ \A req \in KeyCurrencyPosts :
                (req.code \in DOMAIN sqlite.currencies /\ CurPost(1, req))
                    => sqlite' = sqlite
          /\ (CurPostInsert(1) /\ procs[1].req.code \in DOMAIN sqlite.currencies)
                    => reply'.status = 409 /\ sqlite' = sqlite]_vars

----------------------------------------------------------------------------
(* SpecTrial: entries of one cent and of one dollar on two days, every
   account active and none of type Opening Balance *)

TrialPosts ==
    [entryDate : {1, 2}, amount : {10, 1000}, currencyCode : {"USD"},
     debitAccountId : {1}, creditAccountId : {2, 3}]

NextTrial ==
    \/ \E req \in TrialPosts : JePost(1, req)
    \/ \E id \in 1..MaxJournalEntryId : JeDelete(1, [id |-> id])
    \/ saveDatabase(1)

SpecTrial == Init /\ [][NextTrial]_vars

\* C18: when no entry touches an Opening Balance account, the Trial Balance
\* for any as-of date has its total of debits within a cent of its total of
\* credits, the totals being those of the accounts it lists, and reports
\* balanced = true.
C18_TrialBalanceBalanced ==
    NoOpeningBalanceLegs(sqlite)
        => \A range \in AsOfDates :
            LET report == TrialBalance(sqlite, range)
            IN  /\ Abs(report.totalDebits - report.totalCredits) < 1
                /\ report.balanced

\* the date ranges asked of the ledger
LedgerRanges == {<<>>, [startDate |-> 2], [endDate |-> 1]}

\* C19: the Account Ledger returns the entries of the account in ascending
\* order of date, each with the balance of the account after it, that is the
\* signed sum of the entry and of the entries returned before it; the balance
\* of the last entry returned is finalBalance.
C19_LedgerRunsForward ==
    \A a \in DOMAIN sqlite.subledgerAccounts, range \in LedgerRanges :
        \A transactions \in LedgerTransactions(sqlite, a, range) :
            LET ledger == AccountLedger(sqlite, a, transactions)
                n == Len(ledger.entries)
                signed(k) == Posting(a, GlType(sqlite, a),
                                     sqlite.journalEntries[ledger.entries[k].id])
            IN  /\ \A k \in 1..n : k < n =>
                        ledger.entries[k].entryDate <= ledger.entries[k + 1].entryDate
                /\ \A k \in 1..n :
                        ledger.entries[k].balance
                            = Sum([l \in 1..k |-> signed(l)], 1..k)
                /\ n > 0 => ledger.entries[n].balance = ledger.finalBalance

----------------------------------------------------------------------------
(* SpecBalances: entries of a dollar, a euro and a cent on two days between
   three accounts, the GL account of the first retyped to every type *)

BalancePosts ==
    {[entryDate |-> p[1], amount |-> p[5], currencyCode |-> p[2],
      debitAccountId |-> p[3], creditAccountId |-> p[4]] :
        p \in {<<1, "USD", 1, 3, 1000>>, <<2, "EUR", 1, 3, 1000>>,
               <<1, "EUR", 2, 1, 1000>>, <<2, "USD", 2, 3, 10>>}}

BalanceTypeUpdates == {[id |-> 1, set |-> [type |-> t]] : t \in ACCOUNT_TYPES}

NextBalances ==
    \/ \E req \in BalancePosts : JePost(1, req)
    \/ \E req \in BalanceTypeUpdates : GlPut(1, req)
    \/ LogAudit(1)
    \/ saveDatabase(1)

SpecBalances == Init /\ [][NextBalances]_vars

BalanceRanges ==
    {<<>>, [startDate |-> 2], [endDate |-> 1], [startDate |-> 1, endDate |-> 1]}

\* the rule of the balance: debits less credits, in USD, over the entries of
\* the range
DebitsLessCredits(a, range) ==
    LET entries == EntriesInRange(sqlite, range)
        asDebit == {j \in entries : sqlite.journalEntries[j].debitAccountId = a}
        asCredit == {j \in entries : sqlite.journalEntries[j].creditAccountId = a}
        amountInUSD == [j \in entries |-> sqlite.journalEntries[j].amountInUSD]
    IN  Sum(amountInUSD, asDebit) - Sum(amountInUSD, asCredit)

\* C20: the balance a report computes for an account is the sum of the USD
\* amounts of the entries in range with the account as debit leg less that of
\* the entries with it as credit leg when the GL type is Asset, Cash, Accounts
\* Receivable or Loss, and the negation of it when the type is Equity,
\* Accounts Payable or Profit.
C20_BalanceFollowsNormalSide ==
    \A range \in BalanceRanges :
        LET balances == calculateBalances(sqlite, range)
        IN  \A a \in DOMAIN balances :
                /\ GlType(sqlite, a) \in {"Asset", "Cash", "Accounts Receivable", "Loss"}
                        => balances[a] = DebitsLessCredits(a, range)
                /\ GlType(sqlite, a) \in {"Equity", "Accounts Payable", "Profit"}
                        => balances[a] = 0 - DebitsLessCredits(a, range)

\* account 1, of type Loss, has entries in range as debit leg and as credit
\* leg, more of the first, and account 3, of type Profit, a credit: both
\* balances are positive
C20_Witness ==
    /\ GlType(sqlite, 1) = "Loss"
    /\ \E j, k \in DOMAIN sqlite.journalEntries :
            /\ sqlite.journalEntries[j].debitAccountId = 1
            /\ sqlite.journalEntries[k].creditAccountId = 1
    /\ calculateBalances(sqlite, <<>>)[1] > 0
    /\ calculateBalances(sqlite, <<>>)[3] > 0

\* C22: the Trial Balance lists the reported accounts whose balance is more
\* than a cent from zero and no other; a listed account has one of its two
\* columns at zero and the other at the absolute value of its balance: the
\* debit column for a positive balance of a debit-normal account and for a
\* negative balance of a credit-normal account, the credit column otherwise.
C22_TrialColumnsFollowSign ==
    \A range \in AsOfDates :
        LET balances == calculateBalances(sqlite, range)
            report == TrialBalance(sqlite, range)
        IN  /\ report.accounts
                = {a \in DOMAIN balances : balances[a] > 1 \/ balances[a] < 0 - 1}
            /\ \A a \in report.accounts :
                LET debitNormal == GlType(sqlite, a) \in
                        {"Asset", "Cash", "Accounts Receivable", "Loss"}
                    inDebit == debitNormal <=> balances[a] > 0
                IN  /\ report.debit[a] = IF inDebit THEN Abs(balances[a]) ELSE 0
                    /\ report.credit[a] = IF inDebit THEN 0 ELSE Abs(balances[a])
                    /\ (report.debit[a] = 0) # (report.credit[a] = 0)

\* account 1, debit-normal, with a negative balance in its credit column, and
\* account 2, credit-normal, with a negative balance in its debit column
C22_Witness ==
    LET report == TrialBalance(sqlite, <<>>)
    IN  /\ GlType(sqlite, 1) = "Asset"
        /\ {1, 2} \subseteq report.accounts
        /\ calculateBalances(sqlite, <<>>)[1] < 0
        /\ report.credit[1] > 0
        /\ calculateBalances(sqlite, <<>>)[2] < 0
        /\ report.debit[2] > 0

\* the admission checks a create request fails, in the order amount positive,
\* currency exists, legs differ, debit account exists, credit account exists
Violated(db, req) ==
    (IF req.amount <= 0 THEN <<"amount must be positive">> ELSE <<>>)
    \o (IF req.currencyCode \notin DOMAIN db.currencies
        THEN <<"Currency not found">> ELSE <<>>)
    \o (IF req.debitAccountId = req.creditAccountId
        THEN <<"Debit and credit accounts must be different">> ELSE <<>>)
    \o (IF req.debitAccountId \notin DOMAIN db.subledgerAccounts
        THEN <<"Debit account not found">> ELSE <<>>)
    \o (IF req.creditAccountId \notin DOMAIN db.subledgerAccounts
        THEN <<"Credit account not found">> ELSE <<>>)

\* C23: a create request that fails more than one admission check is answered
\* with the failure of the first of them in the order amount positive,
\* currency exists, legs differ, debit account exists, credit account exists.
C23_FirstViolatedCheckReported ==
    [][\A req \in JournalPosts :
            (Len(Violated(sqlite, req)) > 1 /\ JePost(1, req))
                => reply'.message = Violated(sqlite, req)[1]]_vars

\* the tables whose rows a step creates, updates or deletes
Mutated ==
    {t \in {"currencies", "glAccounts", "subledgerAccounts", "journalEntries"} :
        sqlite'[t] # sqlite[t]}

\* the handler has made its write and is at its call of logAudit
AtLogAudit(p) == procs'[p] # Idle /\ procs'[p].pc = "audit"

\* C24: every create, update or delete of a currency, a GL account, a
\* subledger account or a journal entry is followed by the handler's call of
\* logAudit, which writes the audit record before the handler saves and
\* replies.
C24_MutationIsAudited ==
    [][Mutated # {} => AtLogAudit(1)]_vars

----------------------------------------------------------------------------
(* SpecLedger: entries of a cent and of a dollar on one day and of a dollar
   on the next, on account 1 as debit leg and as credit leg *)

LedgerPosts ==
    {[entryDate |-> p[1], amount |-> p[2], currencyCode |-> "USD",
      debitAccountId |-> p[3], creditAccountId |-> p[4]] :
        p \in {<<1, 10, 1, 2>>, <<1, 1000, 1, 2>>, <<2, 1000, 2, 1>>}}

NextLedger ==
    \/ \E req \in LedgerPosts : JePost(1, req)
    \/ saveDatabase(1)

SpecLedger == Init /\ [][NextLedger]_vars

\* the store with two of its journal entries created in each other's place
Recreated(db, j, k) ==
    [db EXCEPT !.journalEntries[j] = db.journalEntries[k],
               !.journalEntries[k] = db.journalEntries[j]]

\* the values of finalBalance the ledger of an account can return
FinalBalances(db, a, range) ==
    {AccountLedger(db, a, transactions).finalBalance :
        transactions \in LedgerTransactions(db, a, range)}

----------------------------------------------------------------------------
(* SpecSnapshot: a Balance Sheet is asked for while another request creates *)
(* a subledger account and posts entries to it                              *)

\* GET /api/reports/balance-sheet up to the account query of
\* calculateBalances: the handler holds the accounts the query returned
SheetAccounts(p, range) ==
    /\ procs[p] = Idle
    /\ procs' = [procs EXCEPT ![p] =
            [kind |-> "balanceSheet", pc |-> "entries",
             range |-> Drop(range, {"startDate"}),
             accounts |-> AccountRows(sqlite)]]
    /\ UNCHANGED <<sqlite, file, reply>>

\* GET /api/reports/balance-sheet from the entry query of calculateBalances
\* to the reply
SheetEntries(p) ==
    /\ procs[p] # Idle
    /\ procs[p].kind = "balanceSheet"
    /\ procs[p].pc = "entries"
    /\ LET accounts == procs[p].accounts
           entries == EntryRows(sqlite, procs[p].range)
       IN  reply' = [kind |-> "balanceSheet", status |-> 200,
                     report |-> SheetOf(accounts, Balances(accounts, entries))]
    /\ procs' = [procs EXCEPT ![p] = Idle]
    /\ UNCHANGED <<sqlite, file>>

SnapshotSubledgers ==
    {[glAccountId |-> 3, accountNumber |-> "4002", currencyCode |-> "USD",
      isActive |-> TRUE]}

SnapshotPosts ==
    [entryDate : {1, 2}, amount : {1000}, currencyCode : {"USD"},
     debitAccountId : {1}, creditAccountId : {3, 4}]

NextSnapshot ==
    \/ \E range \in AsOfDates : SheetAccounts(1, range)
    \/ SheetEntries(1)
    \/ \E req \in SnapshotSubledgers : SubPost(2, req)
    \/ \E req \in SnapshotPosts : JePost(2, req)
    \/ saveDatabase(2)

SpecSnapshot == Init /\ [][NextSnapshot]_vars

\* C26: a report is computed from the accounts and the entries of one state
\* of the store, also when a request writes between the two queries: every
\* state of the store here has a balanced Balance Sheet for every as-of date,
\* and so every Balance Sheet replied is balanced.
C26_ReportOfOneStoreState ==
    /\ [](\A range \in AsOfDates : BalanceSheet(sqlite, range).balanced)
    /\ [][SheetEntries(1) => reply'.report.balanced]_vars


----------------------------------------------------------------------------
(* SpecScheduler: the job 'backup' is scheduled, its timers fire, its       *)
(* handler runs and ends, and the scheduler is shut down                    *)

\* scheduleNext: one more setTimeout, whose id is kept in job.intervalId
scheduleNext(job) ==
    [job EXCEPT !.seq = @ + 1, !.intervalId = job.seq + 1,
                !.pending = @ \cup {job.seq + 1}]

\* scheduleJob(name, cronPattern, handler) with a pattern of five parts
scheduleJob ==
    /\ procs[Scheduler] = Idle
    /\ procs' = [procs EXCEPT ![Scheduler] =
            scheduleNext([kind |-> "job", pc |-> "timer", registered |-> TRUE,
                          running |-> FALSE, seq |-> 0, intervalId |-> 0,
                          pending |-> {}, handlers |-> <<>>,
                          outcome |-> "none"])]
    /\ UNCHANGED <<sqlite, file, reply>>

Scheduled == procs[Scheduler] # Idle

\* the callback of setTimeout: a run is skipped while job.running, else the
\* handler is called
TimerFires(t) ==
    /\ Scheduled
    /\ t \in procs[Scheduler].pending
    /\ LET job == [procs[Scheduler] EXCEPT !.pending = @ \ {t}]
       IN  IF job.running
           THEN /\ job.seq < MaxTimeouts
                /\ procs' = [procs EXCEPT ![Scheduler] = scheduleNext(job)]
           ELSE procs' = [procs EXCEPT ![Scheduler] =
                    [job EXCEPT !.running = TRUE,
                                !.handlers = With(@, t, "local")]]
    /\ UNCHANGED <<sqlite, file, reply>>

\* performBackup goes from one of its awaits to the next: createLocalBackup,
\* transferToNAS when the NAS credentials are configured, cleanupOldBackups
BackupStep(t, nas) ==
    /\ Scheduled
    /\ t \in DOMAIN procs[Scheduler].handlers
    /\ procs[Scheduler].handlers[t] \in {"local", "nas"}
    /\ procs' = [procs EXCEPT ![Scheduler].handlers[t] =
            IF @ = "local" /\ nas THEN "nas" ELSE "cleanup"]
    /\ UNCHANGED <<sqlite, file, reply>>

\* the catch and finally blocks of the callback
HandlerEndedBadAsLostOnThrow(job, t, outcome) ==
    LET ended == [job EXCEPT !.running = FALSE, !.handlers = Without(@, t),
                             !.outcome = outcome]
    IN  IF outcome = "thrown" THEN ended ELSE scheduleNext(ended)
HandlerEnded(job, t, outcome) ==
    scheduleNext([job EXCEPT !.running = FALSE, !.handlers = Without(@, t),
                             !.outcome = outcome])

\* the handler's promise is fulfilled: performBackup has returned its
\* result, of a backup made or of a backup failed
HandlerReturns(t, outcome) ==
    /\ Scheduled
    /\ t \in DOMAIN procs[Scheduler].handlers
    /\ outcome = "done" => procs[Scheduler].handlers[t] = "cleanup"
    /\ procs[Scheduler].seq < MaxTimeouts
    /\ procs' = [procs EXCEPT ![Scheduler] = HandlerEnded(@, t, outcome)]
    /\ UNCHANGED <<sqlite, file, reply>>

\* the handler's promise is rejected
HandlerThrows(t) ==
    /\ Scheduled
    /\ t \in DOMAIN procs[Scheduler].handlers
    /\ procs[Scheduler].seq < MaxTimeouts
    /\ procs' = [procs EXCEPT ![Scheduler] = HandlerEnded(@, t, "thrown")]
    /\ UNCHANGED <<sqlite, file, reply>>

\* stopJob(name): clearTimeout(job.intervalId); jobs.delete(name)
stopJob(job) ==
    IF job.registered /\ job.intervalId # 0
    THEN [job EXCEPT !.pending = @ \ {job.intervalId}, !.registered = FALSE]
    ELSE job

\* shutdownScheduler: stopAllJobs
shutdownScheduler ==
    /\ Scheduled
    /\ procs[Scheduler].registered
    /\ procs' = [procs EXCEPT ![Scheduler] = stopJob(@)]
    /\ UNCHANGED <<sqlite, file, reply>>

NextScheduler ==
    \/ scheduleJob
    \/ \E t \in 1..MaxTimeouts : TimerFires(t)
    \/ \E t \in 1..MaxTimeouts, nas \in BOOLEAN : BackupStep(t, nas)
    \/ \E t \in 1..MaxTimeouts, outcome \in {"done", "failed"} :
            HandlerReturns(t, outcome)
    \/ \E t \in 1..MaxTimeouts : HandlerThrows(t)
    \/ shutdownScheduler

SpecScheduler == Init /\ [][NextScheduler]_vars

\* a run of the handler ends in this step
RunEnds ==
    /\ Scheduled
    /\ DOMAIN procs'[Scheduler].handlers # DOMAIN procs[Scheduler].handlers
    /\ DOMAIN procs'[Scheduler].handlers \subseteq DOMAIN procs[Scheduler].handlers

\* C27: a job has at most one execution of its handler in progress and at
\* most one timer pending at any time, and the end of each run, whether the
\* handler succeeded or threw, sets exactly one timer for the next run.
C27_OneRunOneTimer ==
    /\ [](Scheduled =>
            /\ Cardinality(DOMAIN procs[Scheduler].handlers) <= 1
            /\ Cardinality(procs[Scheduler].pending) <= 1)
    /\ [][RunEnds =>
            /\ procs'[Scheduler].seq = procs[Scheduler].seq + 1
            /\ procs'[Scheduler].pending =
                    procs[Scheduler].pending \cup {procs'[Scheduler].seq}
            /\ procs[Scheduler].seq + 1 \notin procs[Scheduler].pending]_vars

\* a run that threw is over and the timer of the next run is pending
C27_Witness ==
    /\ Scheduled
    /\ procs[Scheduler].registered
    /\ procs[Scheduler].outcome = "thrown"
    /\ procs[Scheduler].handlers = <<>>
    /\ Cardinality(procs[Scheduler].pending) = 1

\* the scheduler has been shut down
Stopped(job) == job # Idle /\ ~job.registered

\* C28: once shutdownScheduler has returned, no timer of the stopped job is
\* pending and no execution of its handler starts, also when a run was in
\* progress at the call.
C28_StoppedJobStaysStopped ==
    /\ [](Stopped(procs[Scheduler]) => procs[Scheduler].pending = {})
    /\ [][Stopped(procs[Scheduler]) =>
            DOMAIN procs'[Scheduler].handlers
                \subseteq DOMAIN procs[Scheduler].handlers]_vars


----------------------------------------------------------------------------
(* SpecDefault: a currency is deleted while another request makes a         *)
(* currency the default                                                     *)

DefaultDeletes == [code : {"USD", "EUR"}]

DefaultUpdates ==
    {[code |-> c, set |-> [isDefault |-> TRUE]] : c \in {"USD", "EUR"}}

NextDefault ==
    \/ \E req \in DefaultDeletes : CurDelete(1, req)
    \/ CurDeleteRow(1)
    \/ \E req \in DefaultUpdates : CurPut(2, req)
    \/ CurPutUpdate(2)
    \/ \E p \in RequestProcs : LogAudit(p)
    \/ \E p \in RequestProcs : saveDatabase(p)

SpecDefault == Init /\ [][NextDefault]_vars

\* C29: a delete request for the currency flagged as default is rejected,
\* changes nothing in the store and starts no checkpoint; no step of a delete
\* request removes a currency that is flagged as default, so none reduces the
\* number of default currencies.
C29_DefaultCurrencyNotDeleted ==
    /\ [][\A req \in DefaultDeletes :
            (/\ CurDelete(1, req)
             /\ req.code \in Defaults(sqlite))
                => /\ reply' = [kind |-> "curDelete", status |-> 400]
                   /\ UNCHANGED <<sqlite, file, procs>>]_vars
    /\ [][CurDeleteRow(1) =>
            /\ (DOMAIN sqlite.currencies \ DOMAIN sqlite'.currencies)
                    \cap Defaults(sqlite) = {}
            /\ Cardinality(Defaults(sqlite')) >= Cardinality(Defaults(sqlite))]_vars


\* C30: for every account the reports select and every date range, the
\* finalBalance of the Account Ledger of the account is the balance
\* calculateBalances computes for it over the same range.
C30_LedgerAgreesWithBalances ==
    \A range \in LedgerRanges :
        \A a \in ReportedAccounts(sqlite) :
            FinalBalances(sqlite, a, range) = {calculateBalances(sqlite, range)[a]}

====
